---- MODULE Spec2Model ----
(***************************************************************************)
(* The identity and session subsystem of the Unimart backend: the auth     *)
(* controller (register, verifyOTP, resendOTP, login, forgotPassword,      *)
(* resetPassword), the session middleware (authMiddleware) and the         *)
(* protected account handlers (getMyProfile, updateMyProfile,              *)
(* changePassword), over the user table of the store, and the wishlist     *)
(* handlers (addToWishlist, removeFromWishlist) over the wishlist table.   *)
(*                                                                         *)
(* Spec serves each request from its read to its response in one step.     *)
(* SpecAwait also lets a handler that reads the account and later writes   *)
(* it be suspended at the await between its checks and its write, and      *)
(* resumed after other requests ran.  SessionSpec follows session tokens   *)
(* over the days of their validity, AuthSpec the middleware before a       *)
(* protected route, and WishlistSpec overlapping wishlist requests.        *)
(***************************************************************************)
EXTENDS Integers, Sequences, FiniteSets, TLC

VARIABLES
    users,      \* the user table: a sequence of account records, id = index
    now,        \* the clock (Date.now()), in minutes
    pending,    \* the request suspended between its read and its write
    resp,       \* the response on its way to the caller (NoResp: none)
    sent,       \* the sendOTP call on its way to the mail transport (Nil: none)
    held,       \* the session token the client keeps from its last login
    wishlist    \* the wishlist table: a sequence of rows, id = index

vars == <<users, now, pending, resp, sent, held, wishlist>>

----------------------------------------------------------------------------
(* Bounds of the model *)

MaxUsers == 2
MaxTicks == 1
MaxDays == 8
MaxWishlist == 3

Emails == {"a@u.edu", "b@u.edu"}
Passwords == {"pw1", "pw2"}
Codes == {"482910", "117733"}
Purposes == {"register", "forgot-password", "verify"}
Products == {"p1", "p2"}

(* Constants of the program *)

RegisterOtpMinutes == 10
ResendOtpMinutes == 5
ForgotOtpMinutes == 10
TokenDays == 7

TokenTtl == TokenDays * 24 * 60

(* null / undefined, and a present value *)
Nil == <<>>
Some(x) == <<x>>

----------------------------------------------------------------------------
(* bcrypt: a one-way hash, and its comparison *)

bcryptHash(password) == <<"bcrypt", password>>

bcryptCompare(password, hash) == hash = bcryptHash(password)

(* jsonwebtoken: sign makes {id, iat, exp} sealed with the secret; verify  *)
(* throws on a bad signature and when the clock has reached exp.           *)

JwtSecret == "JWT_SECRET"

generateToken(user, t) ==
    [id |-> user.id, iat |-> t, exp |-> t + TokenTtl, sig |-> JwtSecret]

(* a verify that still accepts a token at the instant of its exp *)
jwtVerify_inclusiveExpiry(token, t) ==
    IF token.sig = JwtSecret /\ t <= token.exp THEN Some(token.id) ELSE Nil

jwtVerify(token, t) ==
    IF token.sig = JwtSecret /\ t < token.exp THEN Some(token.id) ELSE Nil

(* The codes generateOTP can return (six digits, 100000..999999) *)
generateOTP == Codes

----------------------------------------------------------------------------
(* The store (Prisma): the user table *)

(* the value the schema gives isVerified when create does not supply it *)
DefaultIsVerified == FALSE

(* the row prisma.user.create makes of the data register supplies *)
NewUser(id, email, password, otp, otpExpiry) ==
    [id |-> id, email |-> email, password |-> password,
     isVerified |-> DefaultIsVerified, otp |-> otp, otpExpiry |-> otpExpiry]

IdsByEmail(us, email) == {i \in DOMAIN us : us[i].email = email}

findByEmail(us, email) ==
    IF IdsByEmail(us, email) = {} THEN Nil
    ELSE Some(us[CHOOSE i \in IdsByEmail(us, email) : TRUE])

findById(us, id) == IF id \in DOMAIN us THEN Some(us[id]) ELSE Nil

(* a user table without the unique index on email *)
EmailTaken_noIndex(us, email, self) == FALSE

(* The unique index on email: a write that would give two rows the same    *)
(* email is refused (the store throws).                                    *)
EmailTaken(us, email, self) ==
    \E i \in DOMAIN us : i # self /\ us[i].email = email

(* create: Nil when the store throws, else the new table *)
createUser(us, email, password, otp, otpExpiry) ==
    IF EmailTaken(us, email, 0) THEN Nil
    ELSE Some(Append(us, NewUser(Len(us) + 1, email, password, otp, otpExpiry)))

(* update: only the supplied fields change; Nil when the store throws      *)
(* (no row matches, or the unique index refuses the new email)             *)
updateUser(us, id, patch) ==
    IF id \notin DOMAIN us THEN Nil
    ELSE IF "email" \in DOMAIN patch /\ EmailTaken(us, patch.email, id) THEN Nil
    ELSE Some([us EXCEPT ![id] = patch @@ us[id]])

updateByEmail(us, email, patch) ==
    IF IdsByEmail(us, email) = {} THEN Nil
    ELSE updateUser(us, CHOOSE i \in IdsByEmail(us, email) : TRUE, patch)

----------------------------------------------------------------------------
(* Requests, responses and continuations *)

Req(op, email, otp, purpose, password, newPassword, token) ==
    [op |-> op, email |-> email, otp |-> otp, purpose |-> purpose,
     password |-> password, newPassword |-> newPassword, token |-> token]

(* res.status(s).json({message, user, token, error}) *)
Res(status, message, user, token, error) ==
    [status |-> status, message |-> message, user |-> user, token |-> token,
     error |-> error]

(* the response a request gets: the route, the email and the bearer token   *)
(* the request named, and the answer                                       *)
Reply(op, email, bearer, res) ==
    [op |-> op, email |-> email, bearer |-> bearer,
     status |-> res.status, message |-> res.message,
     user |-> res.user, token |-> res.token, error |-> res.error]

NoResp == Reply("none", "", Nil, Res(0, "", Nil, Nil, Nil))

(* a handler that answered after its checks, and one that goes on to write *)
Done(res, mail) == [done |-> TRUE, res |-> res, mail |-> mail]

(* what the write after the await uses: the route, the request's email,   *)
(* the row it addresses, and the data it writes                            *)
Cont(req, uid, email, password, otp, otpExpiry, mail) ==
    [done |-> FALSE,
     k |-> [op |-> req.op, reqEmail |-> req.email, bearer |-> req.token,
            uid |-> uid,
            email |-> email, password |-> password,
            otp |-> otp, otpExpiry |-> otpExpiry],
     mail |-> mail]

(* the result of the write: the table, the response, the sendOTP call *)
Out(us, res, mail) == [users |-> us, res |-> res, mail |-> mail]

(* sendOTP(email, otp): the call, and whether the transport delivered *)
sendOTP(email, otp, delivered) ==
    Some([to |-> email, otp |-> otp, delivered |-> delivered])

(* user.otp !== otp || user.otpExpiry < new Date(): a null expiry compares *)
(* as the epoch, which lies before every clock value                       *)
otpRejected(user, otp, t) ==
    \/ user.otp # otp
    \/ IF user.otpExpiry = Nil THEN TRUE ELSE user.otpExpiry[1] < t

----------------------------------------------------------------------------
(* The auth controller *)

(* a register that does not look for an existing account *)
registerCheck_noExistenceCheck(us, t, req, otp, delivered) ==
    IF ~delivered
    THEN Done(Res(500, "Registration failed", Nil, Nil, Some("sendMail failed")),
              sendOTP(req.email, otp, FALSE))
    ELSE Cont(req, 0, req.email, bcryptHash(req.password), Some(otp),
              Some(t + RegisterOtpMinutes),
              sendOTP(req.email, otp, TRUE))

(* a register that gives its OTP the resend window *)
registerCheck_resendWindow(us, t, req, otp, delivered) ==
    IF findByEmail(us, req.email) # Nil
    THEN Done(Res(400, "Email already in use", Nil, Nil, Nil), Nil)
    ELSE IF ~delivered
    THEN Done(Res(500, "Registration failed", Nil, Nil, Some("sendMail failed")),
              sendOTP(req.email, otp, FALSE))
    ELSE Cont(req, 0, req.email, bcryptHash(req.password), Some(otp),
              Some(t + ResendOtpMinutes),
              sendOTP(req.email, otp, TRUE))

(* a register that goes on to create the account when sendOTP has thrown *)
registerCheck_createsAnyway(us, t, req, otp, delivered) ==
    IF findByEmail(us, req.email) # Nil
    THEN Done(Res(400, "Email already in use", Nil, Nil, Nil), Nil)
    ELSE Cont(req, 0, req.email, bcryptHash(req.password), Some(otp),
              Some(t + RegisterOtpMinutes),
              sendOTP(req.email, otp, delivered))

(* register: the existence check, the OTP and its expiry, sendOTP *)
registerCheck(us, t, req, otp, delivered) ==
    IF findByEmail(us, req.email) # Nil
    THEN Done(Res(400, "Email already in use", Nil, Nil, Nil), Nil)
    ELSE IF ~delivered
    THEN Done(Res(500, "Registration failed", Nil, Nil, Some("sendMail failed")),
              sendOTP(req.email, otp, FALSE))
    ELSE Cont(req, 0, req.email, bcryptHash(req.password), Some(otp),
              Some(t + RegisterOtpMinutes),
              sendOTP(req.email, otp, TRUE))

(* register: bcrypt.hash, prisma.user.create, the 201 *)
registerWrite(us, k) ==
    LET created == createUser(us, k.email, k.password, k.otp, k.otpExpiry)
    IN  IF created = Nil
        THEN Out(us, Res(500, "Registration failed", Nil, Nil,
                         Some("Unique constraint failed")), Nil)
        ELSE Out(created[1],
                 Res(201, "OTP sent to email. Please verify to continue.",
                     Some(created[1][Len(created[1])]), Nil, Nil), Nil)

(* a verifyOTP that looks at isVerified before it looks at the code *)
verifyOTPCheck_verifiedFirst(us, t, req) ==
    IF req.email = "" \/ req.otp = Nil \/ req.purpose = ""
    THEN Done(Res(400, "Email, OTP, and purpose are required.", Nil, Nil, Nil), Nil)
    ELSE LET found == findByEmail(us, req.email) IN
    IF found = Nil
    THEN Done(Res(404, "User not found", Nil, Nil, Nil), Nil)
    ELSE IF req.purpose = "register" /\ found[1].isVerified
    THEN Done(Res(400, "Already verified", Nil, Nil, Nil), Nil)
    ELSE IF otpRejected(found[1], req.otp, t)
    THEN Done(Res(400, "Invalid or expired OTP", Nil, Nil, Nil), Nil)
    ELSE IF req.purpose = "register"
    THEN Cont(req, found[1].id, req.email, Nil, Nil, Nil, Nil)
    ELSE IF req.purpose = "forgot-password"
    THEN Done(Res(200, "OTP verified for password reset", Nil, Nil, Nil), Nil)
    ELSE Done(Res(400, "Invalid purpose", Nil, Nil, Nil), Nil)

(* a verifyOTP that consumes the code for "forgot-password" as well *)
verifyOTPCheck_consumesOnForgot(us, t, req) ==
    IF req.email = "" \/ req.otp = Nil \/ req.purpose = ""
    THEN Done(Res(400, "Email, OTP, and purpose are required.", Nil, Nil, Nil), Nil)
    ELSE LET found == findByEmail(us, req.email) IN
    IF found = Nil
    THEN Done(Res(404, "User not found", Nil, Nil, Nil), Nil)
    ELSE IF otpRejected(found[1], req.otp, t)
    THEN Done(Res(400, "Invalid or expired OTP", Nil, Nil, Nil), Nil)
    ELSE IF req.purpose = "register"
    THEN IF found[1].isVerified
         THEN Done(Res(400, "Already verified", Nil, Nil, Nil), Nil)
         ELSE Cont(req, found[1].id, req.email, Nil, Nil, Nil, Nil)
    ELSE IF req.purpose = "forgot-password"
    THEN Cont(req, found[1].id, req.email, Nil, Nil, Nil, Nil)
    ELSE Done(Res(400, "Invalid purpose", Nil, Nil, Nil), Nil)

verifyOTPCheck(us, t, req) ==
    IF req.email = "" \/ req.otp = Nil \/ req.purpose = ""
    THEN Done(Res(400, "Email, OTP, and purpose are required.", Nil, Nil, Nil), Nil)
    ELSE LET found == findByEmail(us, req.email) IN
    IF found = Nil
    THEN Done(Res(404, "User not found", Nil, Nil, Nil), Nil)
    ELSE IF otpRejected(found[1], req.otp, t)
    THEN Done(Res(400, "Invalid or expired OTP", Nil, Nil, Nil), Nil)
    ELSE IF req.purpose = "register"
    THEN IF found[1].isVerified
         THEN Done(Res(400, "Already verified", Nil, Nil, Nil), Nil)
         ELSE Cont(req, found[1].id, req.email, Nil, Nil, Nil, Nil)
    ELSE IF req.purpose = "forgot-password"
    THEN Done(Res(200, "OTP verified for password reset", Nil, Nil, Nil), Nil)
    ELSE Done(Res(400, "Invalid purpose", Nil, Nil, Nil), Nil)

(* a verifyOTP that clears the code and leaves its expiry *)
verifyOTPWrite_keepsExpiry(us, k) ==
    LET updated == updateByEmail(us, k.email, [isVerified |-> TRUE, otp |-> Nil])
    IN  IF updated = Nil
        THEN Out(us, Res(500, "Error verifying OTP", Nil, Nil, Nil), Nil)
        ELSE Out(updated[1], Res(200, "Email verified successfully", Nil, Nil, Nil), Nil)

verifyOTPWrite(us, k) ==
    LET updated == updateByEmail(us, k.email,
                       [isVerified |-> TRUE, otp |-> Nil, otpExpiry |-> Nil])
    IN  IF updated = Nil
        THEN Out(us, Res(500, "Error verifying OTP", Nil, Nil, Nil), Nil)
        ELSE Out(updated[1], Res(200, "Email verified successfully", Nil, Nil, Nil), Nil)

(* a resendOTP that refuses an account already verified *)
resendOTPCheck_unverifiedOnly(us, t, req, otp) ==
    IF req.email = ""
    THEN Done(Res(400, "Email is required.", Nil, Nil, Nil), Nil)
    ELSE LET found == findByEmail(us, req.email) IN
    IF found = Nil
    THEN Done(Res(404, "User not found", Nil, Nil, Nil), Nil)
    ELSE IF found[1].isVerified
    THEN Done(Res(400, "Already verified", Nil, Nil, Nil), Nil)
    ELSE Cont(req, found[1].id, req.email, Nil, Some(otp),
              Some(t + ResendOtpMinutes), Nil)

resendOTPCheck(us, t, req, otp) ==
    IF req.email = ""
    THEN Done(Res(400, "Email is required.", Nil, Nil, Nil), Nil)
    ELSE LET found == findByEmail(us, req.email) IN
    IF found = Nil
    THEN Done(Res(404, "User not found", Nil, Nil, Nil), Nil)
    ELSE Cont(req, found[1].id, req.email, Nil, Some(otp),
              Some(t + ResendOtpMinutes), Nil)

(* the update comes first, sendOTP after it *)
resendOTPWrite(us, k, delivered) ==
    LET updated == updateByEmail(us, k.email,
                       [otp |-> k.otp, otpExpiry |-> k.otpExpiry])
    IN  IF updated = Nil
        THEN Out(us, Res(500, "Error resending OTP", Nil, Nil, Nil), Nil)
        ELSE IF ~delivered
        THEN Out(updated[1], Res(500, "Error resending OTP", Nil, Nil, Nil),
                 sendOTP(k.email, k.otp[1], FALSE))
        ELSE Out(updated[1], Res(200, "OTP resent successfully", Nil, Nil, Nil),
                 sendOTP(k.email, k.otp[1], TRUE))

(* a login that tells a missing account from a wrong password *)
loginCheck_userNotFound(us, t, req) ==
    LET found == findByEmail(us, req.email) IN
    IF found = Nil
    THEN Done(Res(404, "User not found", Nil, Nil, Nil), Nil)
    ELSE IF ~bcryptCompare(req.password, found[1].password)
    THEN Done(Res(400, "Invalid credentials", Nil, Nil, Nil), Nil)
    ELSE IF ~found[1].isVerified
    THEN Done(Res(403, "Please verify your email before logging in.",
                  Nil, Nil, Nil), Nil)
    ELSE Done(Res(200, "", found, Some(generateToken(found[1], t)), Nil), Nil)

(* a login that does not look at isVerified *)
loginCheck_noVerifiedCheck(us, t, req) ==
    LET found == findByEmail(us, req.email) IN
    IF found = Nil \/ ~bcryptCompare(req.password, found[1].password)
    THEN Done(Res(400, "Invalid credentials", Nil, Nil, Nil), Nil)
    ELSE Done(Res(200, "", found, Some(generateToken(found[1], t)), Nil), Nil)

loginCheck(us, t, req) ==
    LET found == findByEmail(us, req.email) IN
    IF found = Nil \/ ~bcryptCompare(req.password, found[1].password)
    THEN Done(Res(400, "Invalid credentials", Nil, Nil, Nil), Nil)
    ELSE IF ~found[1].isVerified
    THEN Done(Res(403, "Please verify your email before logging in.",
                  Nil, Nil, Nil), Nil)
    ELSE Done(Res(200, "", found, Some(generateToken(found[1], t)), Nil), Nil)

(* a forgotPassword that gives its OTP the resend window *)
forgotPasswordCheck_resendWindow(us, t, req, otp) ==
    LET found == findByEmail(us, req.email) IN
    IF found = Nil
    THEN Done(Res(404, "User not found", Nil, Nil, Nil), Nil)
    ELSE Cont(req, found[1].id, req.email, Nil, Some(otp),
              Some(t + ResendOtpMinutes), Nil)

forgotPasswordCheck(us, t, req, otp) ==
    LET found == findByEmail(us, req.email) IN
    IF found = Nil
    THEN Done(Res(404, "User not found", Nil, Nil, Nil), Nil)
    ELSE Cont(req, found[1].id, req.email, Nil, Some(otp),
              Some(t + ForgotOtpMinutes), Nil)

forgotPasswordWrite(us, k, delivered) ==
    LET updated == updateByEmail(us, k.email,
                       [otp |-> k.otp, otpExpiry |-> k.otpExpiry])
    IN  IF updated = Nil
        THEN Out(us, Res(500, "Error sending OTP", Nil, Nil, Nil), Nil)
        ELSE IF ~delivered
        THEN Out(updated[1], Res(500, "Error sending OTP", Nil, Nil, Nil),
                 sendOTP(k.email, k.otp[1], FALSE))
        ELSE Out(updated[1],
                 Res(200, "OTP sent to email for password reset.", Nil, Nil, Nil),
                 sendOTP(k.email, k.otp[1], TRUE))

(* a resetPassword that stores the new password as it came *)
resetPasswordCheck_plaintext(us, t, req) ==
    LET found == findByEmail(us, req.email) IN
    IF found = Nil
    THEN Done(Res(404, "User not found", Nil, Nil, Nil), Nil)
    ELSE IF otpRejected(found[1], req.otp, t)
    THEN Done(Res(400, "Invalid or expired OTP", Nil, Nil, Nil), Nil)
    ELSE Cont(req, found[1].id, req.email, <<"plain", req.newPassword>>,
              Nil, Nil, Nil)

resetPasswordCheck(us, t, req) ==
    LET found == findByEmail(us, req.email) IN
    IF found = Nil
    THEN Done(Res(404, "User not found", Nil, Nil, Nil), Nil)
    ELSE IF otpRejected(found[1], req.otp, t)
    THEN Done(Res(400, "Invalid or expired OTP", Nil, Nil, Nil), Nil)
    ELSE Cont(req, found[1].id, req.email, bcryptHash(req.newPassword),
              Nil, Nil, Nil)

(* a resetPassword that replaces the password and leaves the code in place *)
resetPasswordWrite_keepsOtp(us, k) ==
    LET updated == updateByEmail(us, k.email, [password |-> k.password])
    IN  IF updated = Nil
        THEN Out(us, Res(500, "Error resetting password", Nil, Nil, Nil), Nil)
        ELSE Out(updated[1],
                 Res(200, "Password reset successfully. You can now log in.",
                     Nil, Nil, Nil), Nil)

(* a resetPassword whose write looks at the stored code once more *)
resetPasswordWrite_recheck(us, k) ==
    LET found == findByEmail(us, k.email) IN
    IF found = Nil
    THEN Out(us, Res(500, "Error resetting password", Nil, Nil, Nil), Nil)
    ELSE IF found[1].otp = Nil
    THEN Out(us, Res(400, "Invalid or expired OTP", Nil, Nil, Nil), Nil)
    ELSE Out(updateByEmail(us, k.email,
                 [password |-> k.password, otp |-> Nil, otpExpiry |-> Nil])[1],
             Res(200, "Password reset successfully. You can now log in.",
                 Nil, Nil, Nil), Nil)

resetPasswordWrite(us, k) ==
    LET updated == updateByEmail(us, k.email,
                       [password |-> k.password, otp |-> Nil, otpExpiry |-> Nil])
    IN  IF updated = Nil
        THEN Out(us, Res(500, "Error resetting password", Nil, Nil, Nil), Nil)
        ELSE Out(updated[1],
                 Res(200, "Password reset successfully. You can now log in.",
                     Nil, Nil, Nil), Nil)

----------------------------------------------------------------------------
(* The session middleware and the protected account handlers *)

(* req.headers.authorization?.split(' ')[1]: the header as its parts; the  *)
(* second part is the token, whatever the first part is, and an empty      *)
(* second part counts as none                                              *)
bearerToken(header) ==
    IF Len(header) < 2 THEN Nil ELSE header[2]

(* a middleware whose missing account falls into the catch *)
authMiddleware_collapsed(us, t, token) ==
    IF token = Nil
    THEN [ok |-> FALSE, res |-> Res(401, "Unauthorized", Nil, Nil, Nil)]
    ELSE LET decoded == jwtVerify(token[1], t) IN
    IF decoded = Nil \/ findById(us, decoded[1]) = Nil
    THEN [ok |-> FALSE, res |-> Res(401, "Invalid token", Nil, Nil, Nil)]
    ELSE [ok |-> TRUE, user |-> findById(us, decoded[1])[1]]

authMiddleware(us, t, token) ==
    IF token = Nil
    THEN [ok |-> FALSE, res |-> Res(401, "Unauthorized", Nil, Nil, Nil)]
    ELSE LET decoded == jwtVerify(token[1], t) IN
    IF decoded = Nil
    THEN [ok |-> FALSE, res |-> Res(401, "Invalid token", Nil, Nil, Nil)]
    ELSE IF findById(us, decoded[1]) = Nil
    THEN [ok |-> FALSE, res |-> Res(404, "User not found", Nil, Nil, Nil)]
    ELSE [ok |-> TRUE, user |-> findById(us, decoded[1])[1]]

(* the fields getMyProfile selects *)
Profile(user) ==
    [id |-> user.id, email |-> user.email, isVerified |-> user.isVerified]

getMyProfileCheck(us, t, req) ==
    LET auth == authMiddleware(us, t, req.token) IN
    IF ~auth.ok THEN Done(auth.res, Nil)
    ELSE LET found == findById(us, auth.user.id) IN
    IF found = Nil
    THEN Done(Res(404, "User not found.", Nil, Nil, Nil), Nil)
    ELSE Done(Res(200, "", Some(Profile(found[1])), Nil, Nil), Nil)

updateMyProfileCheck(us, t, req) ==
    LET auth == authMiddleware(us, t, req.token) IN
    IF ~auth.ok THEN Done(auth.res, Nil)
    ELSE LET found == findById(us, auth.user.id) IN
    IF found = Nil
    THEN Done(Res(404, "User not found.", Nil, Nil, Nil), Nil)
    ELSE Cont(req, auth.user.id,
              IF req.email = "" THEN found[1].email ELSE req.email,
              Nil, Nil, Nil, Nil)

(* an updateMyProfile that takes the verification back when it writes *)
updateMyProfileWrite_resetsVerified(us, k) ==
    LET updated == updateUser(us, k.uid, [email |-> k.email, isVerified |-> FALSE])
    IN  IF updated = Nil
        THEN Out(us, Res(500, "Error updating profile.", Nil, Nil, Nil), Nil)
        ELSE Out(updated[1],
                 Res(200, "Profile updated.", findById(updated[1], k.uid),
                     Nil, Nil), Nil)

updateMyProfileWrite(us, k) ==
    LET updated == updateUser(us, k.uid, [email |-> k.email])
    IN  IF updated = Nil
        THEN Out(us, Res(500, "Error updating profile.", Nil, Nil, Nil), Nil)
        ELSE Out(updated[1],
                 Res(200, "Profile updated.", findById(updated[1], k.uid),
                     Nil, Nil), Nil)

changePasswordCheck(us, t, req) ==
    LET auth == authMiddleware(us, t, req.token) IN
    IF ~auth.ok THEN Done(auth.res, Nil)
    ELSE IF req.password = "" \/ req.newPassword = ""
    THEN Done(Res(400, "Both current and new passwords are required.",
                  Nil, Nil, Nil), Nil)
    ELSE LET found == findById(us, auth.user.id) IN
    IF found = Nil
    THEN Done(Res(404, "User not found.", Nil, Nil, Nil), Nil)
    ELSE IF ~bcryptCompare(req.password, found[1].password)
    THEN Done(Res(401, "Incorrect current password.", Nil, Nil, Nil), Nil)
    ELSE Cont(req, auth.user.id, found[1].email,
              bcryptHash(req.newPassword), Nil, Nil, Nil)

(* a changePassword that clears the code as resetPassword does *)
changePasswordWrite_clearsOtp(us, k) ==
    LET updated == updateUser(us, k.uid,
                       [password |-> k.password, otp |-> Nil, otpExpiry |-> Nil])
    IN  IF updated = Nil
        THEN Out(us, Res(500, "Error changing password.", Nil, Nil, Nil), Nil)
        ELSE Out(updated[1], Res(200, "Password changed successfully.",
                                 Nil, Nil, Nil), Nil)

changePasswordWrite(us, k) ==
    LET updated == updateUser(us, k.uid, [password |-> k.password])
    IN  IF updated = Nil
        THEN Out(us, Res(500, "Error changing password.", Nil, Nil, Nil), Nil)
        ELSE Out(updated[1], Res(200, "Password changed successfully.",
                                 Nil, Nil, Nil), Nil)

(* the part of a handler after its await: the write and the response *)
Write(us, k, delivered) ==
    CASE k.op = "register" -> registerWrite(us, k)
      [] k.op = "verifyOTP" -> verifyOTPWrite(us, k)
      [] k.op = "resendOTP" -> resendOTPWrite(us, k, delivered)
      [] k.op = "forgotPassword" -> forgotPasswordWrite(us, k, delivered)
      [] k.op = "resetPassword" -> resetPasswordWrite(us, k)
      [] k.op = "updateMyProfile" -> updateMyProfileWrite(us, k)
      [] k.op = "changePassword" -> changePasswordWrite(us, k)

----------------------------------------------------------------------------
(* The state machine *)

Init ==
    /\ users = <<>>
    /\ now = 0
    /\ pending = Nil
    /\ resp = NoResp
    /\ sent = Nil
    /\ held = Nil
    /\ wishlist = <<>>

(* no response and no mail is on its way: the next request can be taken *)
Quiet == resp = NoResp /\ sent = Nil

(* the outcomes of the mail transport a write can meet *)
Deliveries(op) ==
    IF op \in {"resendOTP", "forgotPassword"} THEN BOOLEAN ELSE {TRUE}

(* a request answered by its checks alone *)
Answer(req, c) ==
    /\ c.done
    /\ resp' = Reply(req.op, req.email, req.token, c.res)
    /\ sent' = c.mail
    /\ UNCHANGED <<users, pending, now, wishlist>>

(* a request that runs from its read to its response with nothing between *)
RunThrough(req, c) ==
    /\ ~c.done
    /\ \E delivered \in Deliveries(req.op) :
          LET o == Write(users, c.k, delivered) IN
          /\ users' = o.users
          /\ resp' = Reply(req.op, req.email, req.token, o.res)
          /\ sent' = IF c.mail # Nil THEN c.mail ELSE o.mail
    /\ UNCHANGED <<pending, now, wishlist>>

Serve(req, c) == Answer(req, c) \/ RunThrough(req, c)

Call(req, c) == [req |-> req, c |-> c]

PendingCreates == IF pending # Nil /\ pending[1].op = "register" THEN 1 ELSE 0

registerCalls ==
    {Call(Req("register", email, Nil, "", password, "", Nil),
          registerCheck(users, now,
                        Req("register", email, Nil, "", password, "", Nil),
                        otp, delivered)) :
        email \in Emails, password \in Passwords, otp \in generateOTP,
        delivered \in BOOLEAN}

register ==
    /\ Quiet
    /\ \E call \in registerCalls :
        /\ call.c.done \/ Len(users) + PendingCreates < MaxUsers
        /\ Serve(call.req, call.c)
    /\ UNCHANGED held

SuppliedOtps == {Nil} \cup {Some(x) : x \in Codes}

verifyOTPCalls ==
    {Call(Req("verifyOTP", email, otp, purpose, "", "", Nil),
          verifyOTPCheck(users, now,
                         Req("verifyOTP", email, otp, purpose, "", "", Nil))) :
        email \in Emails, otp \in SuppliedOtps, purpose \in Purposes}

verifyOTP ==
    /\ Quiet
    /\ \E call \in verifyOTPCalls : Serve(call.req, call.c)
    /\ UNCHANGED held

resendOTPCalls ==
    {Call(Req("resendOTP", email, Nil, "", "", "", Nil),
          resendOTPCheck(users, now,
                         Req("resendOTP", email, Nil, "", "", "", Nil), otp)) :
        email \in Emails, otp \in generateOTP}

resendOTP ==
    /\ Quiet
    /\ \E call \in resendOTPCalls : Serve(call.req, call.c)
    /\ UNCHANGED held

login ==
    /\ Quiet
    /\ \E email \in Emails, password \in Passwords :
        LET req == Req("login", email, Nil, "", password, "", Nil)
            c == loginCheck(users, now, req)
        IN  /\ Answer(req, c)
            /\ held' = IF c.res.token # Nil THEN c.res.token ELSE held

forgotPasswordCalls ==
    {Call(Req("forgotPassword", email, Nil, "", "", "", Nil),
          forgotPasswordCheck(users, now,
                              Req("forgotPassword", email, Nil, "", "", "", Nil),
                              otp)) :
        email \in Emails, otp \in generateOTP}

forgotPassword ==
    /\ Quiet
    /\ \E call \in forgotPasswordCalls : Serve(call.req, call.c)
    /\ UNCHANGED held

resetPasswordCalls ==
    {Call(Req("resetPassword", email, otp, "", "", newPassword, Nil),
          resetPasswordCheck(users, now,
                             Req("resetPassword", email, otp, "", "",
                                 newPassword, Nil))) :
        email \in Emails, otp \in SuppliedOtps, newPassword \in Passwords}

resetPassword ==
    /\ Quiet
    /\ \E call \in resetPasswordCalls : Serve(call.req, call.c)
    /\ UNCHANGED held

(* the bearer tokens a caller can present: none, the one it holds, and     *)
(* that one re-signed without the secret                                   *)
Bearers ==
    {Nil} \cup (IF held = Nil THEN {}
                ELSE {held, Some([held[1] EXCEPT !.sig = "forged"])})

getMyProfile ==
    /\ Quiet
    /\ \E token \in Bearers :
        LET req == Req("getMyProfile", "", Nil, "", "", "", token)
        IN  Answer(req, getMyProfileCheck(users, now, req))
    /\ UNCHANGED held

updateMyProfileCalls ==
    {Call(Req("updateMyProfile", email, Nil, "", "", "", token),
          updateMyProfileCheck(users, now,
                               Req("updateMyProfile", email, Nil, "", "", "",
                                   token))) :
        token \in Bearers, email \in Emails \cup {""}}

updateMyProfile ==
    /\ Quiet
    /\ \E call \in updateMyProfileCalls : Serve(call.req, call.c)
    /\ UNCHANGED held

changePasswordCalls ==
    {Call(Req("changePassword", "", Nil, "", currentPassword, newPassword, token),
          changePasswordCheck(users, now,
                              Req("changePassword", "", Nil, "", currentPassword,
                                  newPassword, token))) :
        token \in Bearers, currentPassword \in Passwords,
        newPassword \in Passwords}

changePassword ==
    /\ Quiet
    /\ \E call \in changePasswordCalls : Serve(call.req, call.c)
    /\ UNCHANGED held

(* the response reaches the caller and the mail its transport *)
Deliver ==
    /\ ~Quiet
    /\ resp' = NoResp
    /\ sent' = Nil
    /\ UNCHANGED <<users, now, pending, held, wishlist>>

TickStep == RegisterOtpMinutes

Tick ==
    /\ Quiet
    /\ now + TickStep <= MaxTicks * TickStep
    /\ now' = now + TickStep
    /\ UNCHANGED <<users, pending, resp, sent, held, wishlist>>

Next ==
    \/ register
    \/ verifyOTP
    \/ resendOTP
    \/ login
    \/ forgotPassword
    \/ resetPassword
    \/ getMyProfile
    \/ updateMyProfile
    \/ changePassword
    \/ Deliver
    \/ Tick

Spec == Init /\ [][Next]_vars

----------------------------------------------------------------------------
(* Requests that overlap: one request waits at its await while others run *)

(* a handler reaches the await before its write and is suspended there *)
Await ==
    /\ Quiet
    /\ pending = Nil
    /\ \E call \in registerCalls \cup verifyOTPCalls \cup resendOTPCalls
                   \cup forgotPasswordCalls \cup resetPasswordCalls
                   \cup updateMyProfileCalls \cup changePasswordCalls :
        /\ ~call.c.done
        /\ call.req.op = "register" => Len(users) < MaxUsers
        /\ pending' = Some(call.c.k)
        /\ sent' = call.c.mail
    /\ UNCHANGED <<users, now, resp, held, wishlist>>

(* the suspended request runs its write and answers *)
Resume ==
    /\ Quiet
    /\ pending # Nil
    /\ \E delivered \in Deliveries(pending[1].op) :
          LET o == Write(users, pending[1], delivered) IN
          /\ users' = o.users
          /\ resp' = Reply(pending[1].op, pending[1].reqEmail, pending[1].bearer,
                           o.res)
          /\ sent' = o.mail
    /\ pending' = Nil
    /\ UNCHANGED <<now, held, wishlist>>

NextAwait ==
    \/ register
    \/ verifyOTP
    \/ resendOTP
    \/ login
    \/ forgotPassword
    \/ resetPassword
    \/ updateMyProfile
    \/ changePassword
    \/ Await
    \/ Resume
    \/ Deliver

SpecAwait == Init /\ [][NextAwait]_vars

----------------------------------------------------------------------------
(* Session tokens over the days of their validity: accounts as register,   *)
(* verifyOTP and resetPassword leave them, logins, and protected requests  *)

Day == 24 * 60

SessionAccount(id, email, verified) ==
    [NewUser(id, email, bcryptHash("pw1"), Nil, Nil)
        EXCEPT !.isVerified = verified]

SessionTables ==
    {<<SessionAccount(1, "a@u.edu", v1)>> : v1 \in BOOLEAN}
    \cup {<<SessionAccount(1, "a@u.edu", v1), SessionAccount(2, "b@u.edu", v2)>> :
             v1 \in BOOLEAN, v2 \in BOOLEAN}

SessionInit ==
    /\ users \in SessionTables
    /\ now = 0
    /\ pending = Nil
    /\ resp = NoResp
    /\ sent = Nil
    /\ held = Nil
    /\ wishlist = <<>>

TickDay ==
    /\ Quiet
    /\ now + Day <= MaxDays * Day
    /\ now' = now + Day
    /\ UNCHANGED <<users, pending, resp, sent, held, wishlist>>

SessionNext ==
    \/ login
    \/ getMyProfile
    \/ Deliver
    \/ TickDay

SessionSpec == SessionInit /\ [][SessionNext]_vars

----------------------------------------------------------------------------
(* The session middleware before a protected route: user tables from which *)
(* an account may have gone since its token was signed, and authorization  *)
(* headers of every shape                                                  *)

(* tokens signed at time 0 for the ids the table can hold, and the same    *)
(* re-signed without the secret                                            *)
AuthTokens ==
    {generateToken([id |-> id], 0) : id \in 1..MaxUsers}
    \cup {[generateToken([id |-> id], 0) EXCEPT !.sig = "forged"] :
             id \in 1..MaxUsers}

(* no header, a scheme alone, a scheme and an empty token, and a token     *)
(* behind the Bearer scheme or another one                                 *)
AuthHeaders ==
    {<<>>, <<"Bearer">>, <<"Bearer", Nil>>}
    \cup {<<scheme, Some(token)>> : scheme \in {"Bearer", "Basic"},
                                    token \in AuthTokens}

AuthInit ==
    /\ users \in SessionTables
    /\ now = 0
    /\ pending = Nil
    /\ resp = NoResp
    /\ sent = Nil
    /\ held = Nil
    /\ wishlist = <<>>

(* router.get('/me', authMiddleware, getMyProfile) *)
protectedRequest ==
    /\ Quiet
    /\ \E header \in AuthHeaders :
        LET req == Req("getMyProfile", "", Nil, "", "", "", bearerToken(header))
        IN  Answer(req, getMyProfileCheck(users, now, req))
    /\ UNCHANGED held

AuthNext ==
    \/ protectedRequest
    \/ Deliver
    \/ TickDay

AuthSpec == AuthInit /\ [][AuthNext]_vars

----------------------------------------------------------------------------
(* The wishlist handlers behind the session middleware, and requests on    *)
(* the wishlist that overlap                                               *)

(* a wishlist row; a row prisma.wishlist.delete removed keeps its place in  *)
(* the sequence, so that no id is given twice                              *)
WishlistRow(userId, productId) ==
    [userId |-> userId, productId |-> productId, live |-> TRUE]

(* prisma.wishlist.findFirst({where: {userId, productId}}): the id of the  *)
(* first row that matches, or null                                         *)
findFirstWishlist(wl, userId, productId) ==
    LET found == {i \in DOMAIN wl : /\ wl[i].live
                                    /\ wl[i].userId = userId
                                    /\ wl[i].productId = productId}
    IN  IF found = {} THEN Nil
        ELSE Some(CHOOSE i \in found : \A j \in found : i <= j)

(* what the write after the await uses *)
WishlistCont(op, token, uid, productId, existing) ==
    [done |-> FALSE,
     k |-> [op |-> op, bearer |-> token, uid |-> uid, productId |-> productId,
            existing |-> existing],
     mail |-> Nil]

addToWishlistCheck(us, wl, t, token, productId) ==
    LET auth == authMiddleware(us, t, token) IN
    IF ~auth.ok THEN Done(auth.res, Nil)
    ELSE IF findFirstWishlist(wl, auth.user.id, productId) # Nil
    THEN Done(Res(400, "Product already in wishlist.", Nil, Nil, Nil), Nil)
    ELSE WishlistCont("addToWishlist", token, auth.user.id, productId, Nil)

(* prisma.wishlist.create: whether the store refuses a second row for the  *)
(* same user and product is decided by the schema; both stores are taken:  *)
(* one that throws on such a row and one that inserts it                   *)
WishlistCreateRefusals(wl, k) ==
    IF findFirstWishlist(wl, k.uid, k.productId) # Nil THEN BOOLEAN ELSE {FALSE}

addToWishlistWrite(wl, k, refused) ==
    IF refused
    THEN [wishlist |-> wl,
          res |-> Res(500, "Error adding to wishlist.", Nil, Nil, Nil)]
    ELSE [wishlist |-> Append(wl, WishlistRow(k.uid, k.productId)),
          res |-> Res(200, "Added to wishlist.", Nil, Nil, Nil)]

removeFromWishlistCheck(us, wl, t, token, productId) ==
    LET auth == authMiddleware(us, t, token) IN
    IF ~auth.ok THEN Done(auth.res, Nil)
    ELSE LET existing == findFirstWishlist(wl, auth.user.id, productId) IN
    IF existing = Nil
    THEN Done(Res(404, "Product not found in wishlist.", Nil, Nil, Nil), Nil)
    ELSE WishlistCont("removeFromWishlist", token, auth.user.id, productId,
                      existing)

(* prisma.wishlist.delete({where: {id: existing.id}}) throws when the row  *)
(* is gone                                                                 *)
removeFromWishlistWrite(wl, k) ==
    IF ~wl[k.existing[1]].live
    THEN [wishlist |-> wl,
          res |-> Res(500, "Error removing from wishlist.", Nil, Nil, Nil)]
    ELSE [wishlist |-> [wl EXCEPT ![k.existing[1]].live = FALSE],
          res |-> Res(200, "Removed from wishlist.", Nil, Nil, Nil)]

WishlistWrite(wl, k, refused) ==
    IF k.op = "addToWishlist" THEN addToWishlistWrite(wl, k, refused)
    ELSE removeFromWishlistWrite(wl, k)

WishlistRefusals(wl, k) ==
    IF k.op = "addToWishlist" THEN WishlistCreateRefusals(wl, k) ELSE {FALSE}

(* two verified accounts, each with a session token from a login at 0 *)
WishlistInit ==
    /\ users = <<SessionAccount(1, "a@u.edu", TRUE),
                 SessionAccount(2, "b@u.edu", TRUE)>>
    /\ now = 0
    /\ pending = Nil
    /\ resp = NoResp
    /\ sent = Nil
    /\ held = Nil
    /\ wishlist = <<>>

WishlistTokens ==
    {Nil} \cup {Some(generateToken(users[i], 0)) : i \in DOMAIN users}

WishlistReq(op, token) == Req(op, "", Nil, "", "", "", token)

WishlistCalls ==
    {Call(WishlistReq("addToWishlist", token),
          addToWishlistCheck(users, wishlist, now, token, productId)) :
        token \in WishlistTokens, productId \in Products}
    \cup
    {Call(WishlistReq("removeFromWishlist", token),
          removeFromWishlistCheck(users, wishlist, now, token, productId)) :
        token \in WishlistTokens, productId \in Products}

PendingWishlistCreates ==
    IF pending # Nil /\ pending[1].op = "addToWishlist" THEN 1 ELSE 0

(* a wishlist request that runs from its findFirst to its response *)
ServeWishlist(call) ==
    \/ Answer(call.req, call.c) /\ UNCHANGED held
    \/ /\ ~call.c.done
       /\ \E refused \in WishlistRefusals(wishlist, call.c.k) :
            LET o == WishlistWrite(wishlist, call.c.k, refused) IN
            /\ wishlist' = o.wishlist
            /\ resp' = Reply(call.req.op, "", call.req.token, o.res)
       /\ sent' = Nil
       /\ UNCHANGED <<users, now, pending, held>>

addToWishlist ==
    /\ Quiet
    /\ \E call \in WishlistCalls :
        /\ call.req.op = "addToWishlist"
        /\ call.c.done \/ Len(wishlist) + PendingWishlistCreates < MaxWishlist
        /\ ServeWishlist(call)

removeFromWishlist ==
    /\ Quiet
    /\ \E call \in WishlistCalls :
        /\ call.req.op = "removeFromWishlist"
        /\ ServeWishlist(call)

(* a wishlist handler reaches the await before its write and waits there *)
AwaitWishlist ==
    /\ Quiet
    /\ pending = Nil
    /\ \E call \in WishlistCalls :
        /\ ~call.c.done
        /\ call.req.op = "addToWishlist" => Len(wishlist) < MaxWishlist
        /\ pending' = Some(call.c.k)
    /\ UNCHANGED <<users, now, resp, sent, held, wishlist>>

(* the waiting handler runs its write and answers *)
ResumeWishlist ==
    /\ Quiet
    /\ pending # Nil
    /\ \E refused \in WishlistRefusals(wishlist, pending[1]) :
          LET o == WishlistWrite(wishlist, pending[1], refused) IN
          /\ wishlist' = o.wishlist
          /\ resp' = Reply(pending[1].op, "", pending[1].bearer, o.res)
    /\ sent' = Nil
    /\ pending' = Nil
    /\ UNCHANGED <<users, now, held>>

WishlistNext ==
    \/ addToWishlist
    \/ removeFromWishlist
    \/ AwaitWishlist
    \/ ResumeWishlist
    \/ Deliver

WishlistSpec == WishlistInit /\ [][WishlistNext]_vars

----------------------------------------------------------------------------
(* Properties *)

UserOf(email) == findByEmail(users, email)[1]

LoginReq(email, password) == Req("login", email, Nil, "", password, "", Nil)

InvalidCredentials == Res(400, "Invalid credentials", Nil, Nil, Nil)

InvalidOrExpiredOtp == Res(400, "Invalid or expired OTP", Nil, Nil, Nil)

(* C1: in every reachable state, under every interleaving of the requests, *)
(* an account's stored OTP is null exactly when its otpExpiry is null.     *)
OtpPairConsistent ==
    \A i \in DOMAIN users : (users[i].otp = Nil) <=> (users[i].otpExpiry = Nil)

(* one account whose pair was cleared by verifyOTP beside one whose pair a *)
(* resendOTP has just set, while a third request waits at its await        *)
OtpPairWitness ==
    /\ pending # Nil
    /\ resp.op = "resendOTP" /\ resp.status = 200
    /\ \E i, j \in DOMAIN users :
        /\ users[i].isVerified /\ users[i].otp = Nil /\ users[i].otpExpiry = Nil
        /\ users[j].email = resp.email
        /\ users[j].otp # Nil /\ users[j].otpExpiry # Nil

(* C2: a register for an email that an account already holds answers 400   *)
(* "Email already in use", leaves the user table as it was and calls       *)
(* sendOTP not at all.                                                     *)
RegisterExistingRejected ==
    [][(resp'.op = "register" /\ findByEmail(users, resp'.email) # Nil) =>
          /\ resp' = Reply("register", resp'.email, Nil,
                           Res(400, "Email already in use", Nil, Nil, Nil))
          /\ users' = users
          /\ sent' = Nil]_vars

(* a register was refused for the email of a verified account *)
RegisterExistingWitness ==
    /\ resp.op = "register" /\ resp.status = 400
    /\ findByEmail(users, resp.email) # Nil
    /\ UserOf(resp.email).isVerified
    /\ sent = Nil

(* C3: no two accounts hold the same email, whatever registers and profile *)
(* updates overlap.                                                        *)
EmailUnique ==
    \A i, j \in DOMAIN users : users[i].email = users[j].email => i = j

(* a register that had passed its existence check was refused at its create *)
EmailUniqueWitness ==
    /\ resp.op = "register"
    /\ resp.error = Some("Unique constraint failed")
    /\ findByEmail(users, resp.email) # Nil

(* C4: a register that answers 201 has added one account, unverified, with *)
(* the OTP it mailed and an expiry of the clock plus 10 minutes; no other   *)
(* step adds an account.                                                   *)
RegisterCreatesUnverified ==
    [][/\ (resp'.op = "register" /\ resp'.status = 201) =>
            /\ Len(users') = Len(users) + 1
            /\ LET u == users'[Len(users')] IN
                /\ u.email = resp'.email
                /\ u.isVerified = FALSE
                /\ u.otp # Nil
                /\ u.otpExpiry = Some(now + RegisterOtpMinutes)
                /\ resp'.user = Some(u)
                /\ sent' = sendOTP(u.email, u.otp[1], TRUE)
       /\ Len(users') # Len(users) =>
            resp'.op = "register" /\ resp'.status = 201]_vars

(* a register succeeded after the clock had advanced *)
RegisterCreatesWitness ==
    /\ resp.op = "register" /\ resp.status = 201
    /\ now > 0
    /\ UserOf(resp.email).otpExpiry = Some(now + RegisterOtpMinutes)

(* the step in which a verifyOTP for "register" answers its 200 *)
VerifiedNow(r) ==
    r.op = "verifyOTP" /\ r.message = "Email verified successfully"

(* the same request once more, on the table as that step left it *)
VerifyAgain(us, t, email, otp) ==
    verifyOTPCheck(us, t, Req("verifyOTP", email, otp, "register", "", "", Nil))

(* C5, as stated: the verifyOTP for "register" with the right code turns    *)
(* isVerified from false to true, and the same call once more answers      *)
(* "Already verified".                                                     *)
SecondVerifyAlreadyVerified ==
    [][VerifiedNow(resp') =>
          /\ ~UserOf(resp'.email).isVerified
          /\ findByEmail(users', resp'.email)[1].isVerified
          /\ VerifyAgain(users', now', resp'.email, UserOf(resp'.email).otp).res.message
                = "Already verified"]_vars

(* C5, amended: the verifyOTP for "register" with the right code turns      *)
(* isVerified from false to true and clears the code and its expiry, no    *)
(* other step changes isVerified, and the same call once more answers 400  *)
(* "Invalid or expired OTP".                                               *)
SecondVerifyInvalidOtp ==
    [][/\ VerifiedNow(resp') =>
            /\ ~UserOf(resp'.email).isVerified
            /\ UserOf(resp'.email).otp # Nil
            /\ findByEmail(users', resp'.email)[1].isVerified
            /\ findByEmail(users', resp'.email)[1].otp = Nil
            /\ findByEmail(users', resp'.email)[1].otpExpiry = Nil
            /\ VerifyAgain(users', now', resp'.email, UserOf(resp'.email).otp)
                  = Done(InvalidOrExpiredOtp, Nil)
       /\ \A i \in DOMAIN users :
            users'[i].isVerified # users[i].isVerified =>
                VerifiedNow(resp') /\ users'[i].email = resp'.email]_vars

(* a verifyOTP was refused as invalid on an account already verified *)
SecondVerifyWitness ==
    /\ resp.op = "verifyOTP" /\ resp.status = 400
    /\ resp.message = "Invalid or expired OTP"
    /\ findByEmail(users, resp.email) # Nil
    /\ UserOf(resp.email).isVerified
    /\ UserOf(resp.email).otp = Nil

(* C6: verifyOTP and resetPassword accept a supplied code only when it is   *)
(* the stored one and the clock is strictly before otpExpiry; once the     *)
(* clock has reached otpExpiry they answer 400 "Invalid or expired OTP"    *)
(* and write nothing.                                                      *)
ExpiredOtpRejected ==
    \A call \in verifyOTPCalls \cup resetPasswordCalls :
        (findByEmail(users, call.req.email) # Nil /\ call.req.otp # Nil) =>
            LET u == UserOf(call.req.email) IN
            /\ (~call.c.done \/ call.c.res.status = 200) =>
                  /\ u.otp = call.req.otp
                  /\ u.otpExpiry # Nil
                  /\ now < u.otpExpiry[1]
            /\ (u.otpExpiry # Nil /\ now >= u.otpExpiry[1]) =>
                  call.c = Done(InvalidOrExpiredOtp, Nil)

(* C7: a login for an email no account holds and a login with a password   *)
(* that does not match get one and the same answer, 400 "Invalid           *)
(* credentials" with nothing else in it.                                   *)
LoginFailuresIndistinguishable ==
    /\ \A email \in Emails, password \in Passwords :
        (\/ findByEmail(users, email) = Nil
         \/ ~bcryptCompare(password, UserOf(email).password)) =>
            loginCheck(users, now, LoginReq(email, password))
                = Done(InvalidCredentials, Nil)
    /\ (resp.op = "login" /\ resp.status \notin {200, 403}) =>
            resp = Reply("login", resp.email, Nil, InvalidCredentials)

(* a login with a wrong password for a verified account was refused while  *)
(* the other email has no account                                          *)
LoginFailureWitness ==
    /\ resp.op = "login" /\ resp.status = 400
    /\ findByEmail(users, resp.email) # Nil
    /\ UserOf(resp.email).isVerified
    /\ \E email \in Emails : findByEmail(users, email) = Nil

(* C8: login gives a token only for an account that exists, whose password *)
(* matches and that is verified; for a matching password on an unverified  *)
(* account it answers 403 and gives none.                                  *)
LoginTokenRequiresVerified ==
    /\ \A email \in Emails, password \in Passwords :
        LET c == loginCheck(users, now, LoginReq(email, password)) IN
        /\ c.res.token # Nil =>
              /\ findByEmail(users, email) # Nil
              /\ bcryptCompare(password, UserOf(email).password)
              /\ UserOf(email).isVerified
              /\ c.res.status = 200
        /\ (/\ findByEmail(users, email) # Nil
            /\ bcryptCompare(password, UserOf(email).password)
            /\ ~UserOf(email).isVerified) =>
              c = Done(Res(403, "Please verify your email before logging in.",
                           Nil, Nil, Nil), Nil)
    /\ (resp.op = "login" /\ resp.token # Nil) =>
        /\ resp.status = 200
        /\ UserOf(resp.email).isVerified
        /\ resp.token = held
        /\ held[1].id = UserOf(resp.email).id

(* a login with the right password was refused for an unverified account *)
LoginUnverifiedWitness ==
    /\ resp.op = "login" /\ resp.status = 403 /\ resp.token = Nil
    /\ ~UserOf(resp.email).isVerified

(* the table a resetPassword that passed its checks leaves *)
AfterReset(call) == Write(users, call.c.k, TRUE).users

(* C9, as stated: after a resetPassword that succeeds with new password P,  *)
(* a login with P succeeds and a login with the previous password answers  *)
(* "Invalid credentials".                                                  *)
ResetThenLoginSucceeds ==
    \A call \in (IF Quiet THEN resetPasswordCalls ELSE {}) :
        ~call.c.done =>
            /\ loginCheck(AfterReset(call), now,
                          LoginReq(call.req.email, call.req.newPassword)).res.status
                  = 200
            /\ \A old \in Passwords :
                bcryptCompare(old, UserOf(call.req.email).password) =>
                    loginCheck(AfterReset(call), now,
                               LoginReq(call.req.email, old)).res
                        = InvalidCredentials

(* C9, amended: after a resetPassword that succeeds with new password P on *)
(* a verified account a login with P succeeds and gives a token (on an     *)
(* unverified account it answers 403), and a login with the previous       *)
(* password, when that is not P, answers "Invalid credentials".            *)
ResetThenLoginVerified ==
    \A call \in (IF Quiet THEN resetPasswordCalls ELSE {}) :
        ~call.c.done =>
            LET withNew == loginCheck(AfterReset(call), now,
                              LoginReq(call.req.email, call.req.newPassword)).res
            IN
            /\ Write(users, call.c.k, TRUE).res.status = 200
            /\ UserOf(call.req.email).isVerified =>
                    withNew.status = 200 /\ withNew.token # Nil
            /\ ~UserOf(call.req.email).isVerified => withNew.status = 403
            /\ \A old \in Passwords :
                (/\ bcryptCompare(old, UserOf(call.req.email).password)
                 /\ old # call.req.newPassword) =>
                    loginCheck(AfterReset(call), now,
                               LoginReq(call.req.email, old)).res
                        = InvalidCredentials

(* a resetPassword succeeded on a verified account and changed its password *)
ResetThenLoginWitness ==
    /\ resp.op = "resetPassword" /\ resp.status = 200
    /\ UserOf(resp.email).isVerified
    /\ UserOf(resp.email).otp = Nil
    /\ now > 0

(* C10: the token login gives account A carries A's id and an exp of 7 days *)
(* after its iat; presented before its exp it resolves to A, from its exp  *)
(* on it is refused with 401 "Invalid token".                              *)
TokenRoundTrip ==
    /\ (resp.op = "login" /\ resp.status = 200) =>
        /\ resp.token = held
        /\ held[1] = generateToken(UserOf(resp.email), now)
        /\ held[1].id = resp.user[1].id
    /\ held # Nil =>
        LET auth == authMiddleware(users, now, held) IN
        /\ held[1].exp = held[1].iat + TokenDays * Day
        /\ now < held[1].exp => auth.ok /\ auth.user.id = held[1].id
        /\ now >= held[1].exp =>
              ~auth.ok /\ auth.res = Res(401, "Invalid token", Nil, Nil, Nil)
    /\ (held # Nil /\ resp.op = "getMyProfile" /\ resp.bearer = held) =>
        IF now < held[1].exp
        THEN resp.status = 200 /\ resp.user[1].id = held[1].id
        ELSE resp.status = 401 /\ resp.message = "Invalid token"

(* the held token was presented at the instant of its exp and refused *)
TokenRoundTripWitness ==
    /\ held # Nil
    /\ resp.op = "getMyProfile" /\ resp.bearer = held
    /\ now = held[1].exp
    /\ resp.status = 401

(* C11, as stated: when sendOTP fails in register the account is created   *)
(* all the same, unverified, with the OTP that was not delivered.          *)
RegisterCreatesDespiteFailedDelivery ==
    [][(resp'.op = "register" /\ sent' # Nil /\ ~sent'[1].delivered) =>
          /\ Len(users') = Len(users) + 1
          /\ users'[Len(users')].email = resp'.email
          /\ users'[Len(users')].otp = Some(sent'[1].otp)
          /\ ~users'[Len(users')].isVerified]_vars

(* C11, amended: register calls sendOTP before it creates the account; an  *)
(* account is created only with its OTP delivered, and when sendOTP fails  *)
(* register answers 500 "Registration failed" and creates no account.      *)
RegisterFailedDeliveryAborts ==
    [][/\ (resp'.op = "register" /\ sent' # Nil /\ ~sent'[1].delivered) =>
            /\ users' = users
            /\ resp'.status = 500
            /\ resp'.message = "Registration failed"
            /\ findByEmail(users', resp'.email) = Nil
       /\ (resp'.op = "register" /\ Len(users') = Len(users) + 1) =>
            /\ sent' # Nil
            /\ sent'[1].delivered
            /\ sent'[1].to = users'[Len(users')].email
            /\ Some(sent'[1].otp) = users'[Len(users')].otp]_vars

(* a register whose sendOTP failed was answered, and its email has no      *)
(* account                                                                 *)
RegisterFailedDeliveryWitness ==
    /\ resp.op = "register" /\ resp.status = 500
    /\ sent # Nil /\ ~sent[1].delivered
    /\ sent[1].to = resp.email
    /\ findByEmail(users, resp.email) = Nil

(* C12: a verifyOTP with purpose "forgot-password" leaves the user table   *)
(* as it was, whatever it answers, and the code it accepted is accepted by *)
(* a resetPassword that follows.                                           *)
VerifyForgotLeavesOtp ==
    [][(Quiet /\ resp'.op = "verifyOTP") =>
       \A call \in {Call(Req("verifyOTP", resp'.email, otp, "forgot-password",
                              "", "", Nil),
                          verifyOTPCheck(users, now,
                              Req("verifyOTP", resp'.email, otp,
                                  "forgot-password", "", "", Nil))) :
                        otp \in SuppliedOtps} :
          Serve(call.req, call.c) =>
              /\ users' = users
              /\ resp'.status = 200 =>
                    \A newPassword \in Passwords :
                        LET c == resetPasswordCheck(users', now',
                                     Req("resetPassword", call.req.email,
                                         call.req.otp, "", "", newPassword, Nil))
                        IN  /\ ~c.done
                            /\ Write(users', c.k, TRUE).res.status = 200]_vars

(* a verifyOTP for "forgot-password" accepted the code of an account, which *)
(* still holds it                                                          *)
VerifyForgotWitness ==
    /\ resp.op = "verifyOTP" /\ resp.status = 200
    /\ resp.message = "OTP verified for password reset"
    /\ UserOf(resp.email).otp # Nil
    /\ UserOf(resp.email).otpExpiry # Nil

(* every request that names the account of email and carries a code is     *)
(* answered 400 "Invalid or expired OTP"                                   *)
EveryCodeRejected(us, t, email) ==
    \A otp \in SuppliedOtps \ {Nil} :
        /\ \A purpose \in Purposes :
              verifyOTPCheck(us, t, Req("verifyOTP", email, otp, purpose,
                                        "", "", Nil))
                 = Done(InvalidOrExpiredOtp, Nil)
        /\ \A newPassword \in Passwords :
              resetPasswordCheck(us, t, Req("resetPassword", email, otp, "", "",
                                            newPassword, Nil))
                 = Done(InvalidOrExpiredOtp, Nil)

(* C13: a resetPassword that succeeds stores the hash of the new password  *)
(* and nulls otp and otpExpiry in the same update; an account without a    *)
(* code is refused by every verifyOTP and resetPassword, and only          *)
(* resendOTP and forgotPassword give an account a code again.              *)
ResetConsumesOtp ==
    [][/\ (Quiet /\ resp'.op = "resetPassword" /\ resp'.status = 200) =>
          \A call \in resetPasswordCalls :
            Serve(call.req, call.c) =>
                LET before == UserOf(call.req.email)
                    after == findByEmail(users', call.req.email)[1]
                IN  /\ after = [before EXCEPT
                                  !.password = bcryptHash(call.req.newPassword),
                                  !.otp = Nil, !.otpExpiry = Nil]
                    /\ EveryCodeRejected(users', now', call.req.email)
       /\ \A i \in DOMAIN users :
            users[i].otp = Nil =>
                /\ (/\ resp'.op \in {"verifyOTP", "resetPassword"}
                    /\ resp'.email = users[i].email) =>
                        /\ resp'.status = 400
                        /\ users' = users
                /\ users'[i].otp # Nil =>
                      resp'.op \in {"resendOTP", "forgotPassword"}]_vars

(* a resetPassword was refused on an account that a resetPassword had left *)
(* without a code (unverified, so no verifyOTP cleared it)                 *)
ResetConsumesWitness ==
    /\ resp.op = "resetPassword" /\ resp.status = 400
    /\ resp.message = "Invalid or expired OTP"
    /\ findByEmail(users, resp.email) # Nil
    /\ ~UserOf(resp.email).isVerified
    /\ UserOf(resp.email).otp = Nil

(* C14: a changePassword with a wrong current password answers 401         *)
(* "Incorrect current password." and writes nothing; with the right one it *)
(* replaces the password of the caller's account and nothing else, and a   *)
(* token authenticates after it exactly when it did before it: now, one    *)
(* minute before its exp, and not at its exp.                              *)
ChangePasswordOnlyPassword ==
    [][(Quiet /\ resp'.op = "changePassword") =>
       \A call \in changePasswordCalls :
          Serve(call.req, call.c) =>
              LET auth == authMiddleware(users, now, call.req.token) IN
              /\ resp'.status # 200 => users' = users
              /\ (auth.ok /\ ~bcryptCompare(call.req.password, auth.user.password)) =>
                    /\ resp'.status = 401
                    /\ resp'.message = "Incorrect current password."
              /\ (auth.ok /\ bcryptCompare(call.req.password, auth.user.password)) =>
                    /\ resp'.status = 200
                    /\ users' = [users EXCEPT ![auth.user.id].password =
                                    bcryptHash(call.req.newPassword)]
                    /\ authMiddleware(users', now', call.req.token).ok
                    /\ \A token \in Bearers \ {Nil} :
                       \A t \in {now', token[1].exp - 1, token[1].exp} :
                          /\ authMiddleware(users', t, token).ok
                                = authMiddleware(users, t, token).ok
                          /\ authMiddleware(users, t, token).ok =>
                                authMiddleware(users', t, token).user.id
                                    = authMiddleware(users, t, token).user.id]_vars

(* a changePassword succeeded on an account that holds a pending code *)
ChangePasswordWitness ==
    /\ resp.op = "changePassword" /\ resp.status = 200
    /\ held # Nil /\ resp.bearer = held
    /\ findById(users, held[1].id)[1].otp # Nil
    /\ findById(users, held[1].id)[1].isVerified

(* C15: the middleware answers 401 "Unauthorized" when the header yields no *)
(* token, 401 "Invalid token" when the token's signature is bad or the     *)
(* clock has reached its exp, 404 "User not found" when the token is good  *)
(* and no account has its id, and lets the handler run with that account   *)
(* in the one remaining case.                                              *)
AuthOutcomes ==
    /\ \A header \in AuthHeaders :
        LET token == bearerToken(header)
            auth == authMiddleware(users, now, token)
        IN  IF Len(header) < 2 \/ token = Nil
            THEN ~auth.ok /\ auth.res = Res(401, "Unauthorized", Nil, Nil, Nil)
            ELSE IF token[1].sig # JwtSecret \/ now >= token[1].exp
            THEN ~auth.ok /\ auth.res = Res(401, "Invalid token", Nil, Nil, Nil)
            ELSE IF token[1].id \notin DOMAIN users
            THEN ~auth.ok /\ auth.res = Res(404, "User not found", Nil, Nil, Nil)
            ELSE auth.ok /\ auth.user = users[token[1].id]
    /\ resp.op = "getMyProfile" =>
        /\ resp.status = 200 <=>
              /\ resp.bearer # Nil
              /\ resp.bearer[1].sig = JwtSecret
              /\ now < resp.bearer[1].exp
              /\ resp.bearer[1].id \in DOMAIN users
        /\ resp.status = 200 => resp.user[1].id = resp.bearer[1].id
        /\ resp.message = "Unauthorized" <=> resp.bearer = Nil
        /\ resp.message = "User not found" =>
              /\ resp.status = 404
              /\ resp.bearer[1].sig = JwtSecret /\ now < resp.bearer[1].exp

(* a good token inside its window was refused because its account is gone *)
AuthOutcomesWitness ==
    /\ resp.op = "getMyProfile" /\ resp.status = 404
    /\ resp.message = "User not found"
    /\ resp.bearer # Nil /\ resp.bearer[1].id \notin DOMAIN users
    /\ now > 0

AuthRoutes ==
    {"register", "verifyOTP", "resendOTP", "login", "forgotPassword",
     "resetPassword"}

(* C16: a 500 of the auth controller carries its generic message and       *)
(* nothing of the error that was caught.                                   *)
InternalErrorsGeneric ==
    (resp.op \in AuthRoutes /\ resp.status = 500) => resp.error = Nil

(* C17: the account in the answer of a register and of a login has no      *)
(* password field.                                                         *)
ResponsesOmitPasswordHash ==
    (resp.op \in {"register", "login"} /\ resp.user # Nil) =>
        "password" \notin DOMAIN resp.user[1]

(* C18: a forgotPassword for an existing account answers the same whether  *)
(* sendOTP delivered or threw.                                             *)
ForgotPasswordSameAcknowledgment ==
    \A call \in (IF Quiet THEN forgotPasswordCalls ELSE {}) :
        ~call.c.done =>
            Write(users, call.c.k, TRUE).res = Write(users, call.c.k, FALSE).res

(* the codes verifyOTP and resetPassword accept for the account of email *)
AcceptedByVerify(us, t, email) ==
    {otp \in SuppliedOtps :
        verifyOTPCheck(us, t, Req("verifyOTP", email, otp, "forgot-password",
                                  "", "", Nil)).res.status = 200}

AcceptedByReset(us, t, email) ==
    {otp \in SuppliedOtps :
        \E newPassword \in Passwords :
            ~resetPasswordCheck(us, t, Req("resetPassword", email, otp, "", "",
                                           newPassword, Nil)).done}

(* C19: a resendOTP for an existing account, verified or not, stores the   *)
(* code it mails with an expiry of the clock plus 5 minutes and changes    *)
(* nothing else; from then on verifyOTP and resetPassword accept that code *)
(* and no other.  For an email without an account it answers 404 "User    *)
(* not found", writes nothing and mails nothing.                           *)
ResendReplacesOtp ==
    [][(Quiet /\ resp'.op = "resendOTP") =>
       \A call \in resendOTPCalls :
          Serve(call.req, call.c) =>
              IF findByEmail(users, call.req.email) = Nil
              THEN /\ resp'.status = 404
                   /\ resp'.message = "User not found"
                   /\ users' = users
                   /\ sent' = Nil
              ELSE LET before == UserOf(call.req.email)
                       after == findByEmail(users', call.req.email)[1]
                   IN  /\ sent' # Nil
                       /\ sent'[1].to = call.req.email
                       /\ users' = [users EXCEPT ![before.id] =
                                       [before EXCEPT
                                           !.otp = Some(sent'[1].otp),
                                           !.otpExpiry =
                                               Some(now + ResendOtpMinutes)]]
                       /\ AcceptedByVerify(users', now', call.req.email)
                             = {after.otp}
                       /\ AcceptedByReset(users', now', call.req.email)
                             = {after.otp}]_vars

(* a resendOTP succeeded on a verified account after the clock had advanced *)
ResendReplacesWitness ==
    /\ resp.op = "resendOTP" /\ resp.status = 200
    /\ UserOf(resp.email).isVerified
    /\ UserOf(resp.email).otpExpiry = Some(now + ResendOtpMinutes)
    /\ now > 0

(* C20, as stated: a resendOTP or forgotPassword that succeeds on an        *)
(* account with a pending code leaves otpExpiry no earlier than it was.    *)
ReissueExtendsExpiry ==
    [][(/\ resp'.op \in {"resendOTP", "forgotPassword"}
        /\ resp'.status = 200
        /\ UserOf(resp'.email).otpExpiry # Nil) =>
            findByEmail(users', resp'.email)[1].otpExpiry[1]
                >= UserOf(resp'.email).otpExpiry[1]]_vars

(* C20, amended: a forgotPassword that succeeds sets otpExpiry to the      *)
(* clock plus 10 minutes, never earlier than it was; a resendOTP that      *)
(* succeeds sets it to the clock plus 5 minutes, which is no earlier than  *)
(* it was exactly when the pending code had at most 5 minutes left.        *)
ReissueSetsExpiry ==
    [][(resp'.op \in {"resendOTP", "forgotPassword"} /\ resp'.status = 200) =>
          LET before == UserOf(resp'.email).otpExpiry
              after == findByEmail(users', resp'.email)[1].otpExpiry
          IN  /\ resp'.op = "forgotPassword" =>
                    /\ after = Some(now + ForgotOtpMinutes)
                    /\ before # Nil => after[1] >= before[1]
              /\ resp'.op = "resendOTP" =>
                    /\ after = Some(now + ResendOtpMinutes)
                    /\ before # Nil =>
                          (after[1] >= before[1]
                              <=> before[1] <= now + ResendOtpMinutes)]_vars

(* a forgotPassword succeeded on an unverified account after the clock had *)
(* advanced                                                                *)
ReissueSetsExpiryWitness ==
    /\ resp.op = "forgotPassword" /\ resp.status = 200
    /\ ~UserOf(resp.email).isVerified
    /\ UserOf(resp.email).otpExpiry = Some(now + ForgotOtpMinutes)
    /\ now > 0

(* C21: a code register issued is refused by resetPassword and by          *)
(* verifyOTP with purpose "forgot-password", and a code forgotPassword     *)
(* issued is refused by verifyOTP with purpose "register".                 *)
OtpScopedToPurpose ==
    [][/\ (Quiet /\ resp'.op = "register" /\ resp'.status = 201) =>
            LET u == resp'.user[1] IN
            /\ resetPasswordCheck(users', now',
                   Req("resetPassword", u.email, u.otp, "", "", "pw2", Nil)).done
            /\ verifyOTPCheck(users', now',
                   Req("verifyOTP", u.email, u.otp, "forgot-password", "", "",
                       Nil)).res.status = 400
       /\ (Quiet /\ resp'.op = "forgotPassword" /\ resp'.status = 200) =>
            verifyOTPCheck(users', now',
                Req("verifyOTP", resp'.email, Some(sent'[1].otp), "register",
                    "", "", Nil)).done]_vars

(* C22: a resetPassword or verifyOTP("register") that waited at the await  *)
(* between its check and its write runs the write whatever other requests  *)
(* did to the account meanwhile: while the email still names an account it *)
(* answers 200, stores its own password (resetPassword) or sets isVerified *)
(* (verifyOTP) and clears the pair, also when the code it had presented    *)
(* was consumed while it waited.                                           *)
ResumeWritesUnchecked ==
    [][(/\ pending # Nil /\ pending' = Nil
        /\ pending[1].op \in {"resetPassword", "verifyOTP"}
        /\ findByEmail(users, pending[1].email) # Nil) =>
           LET u == findByEmail(users', pending[1].email)[1] IN
           /\ resp'.op = pending[1].op /\ resp'.status = 200
           /\ u.otp = Nil /\ u.otpExpiry = Nil
           /\ pending[1].op = "resetPassword" => u.password = pending[1].password
           /\ pending[1].op = "verifyOTP" => u.isVerified]_vars

(* a resetPassword has just succeeded and consumed the code while another  *)
(* resetPassword for the same account, with another password, waits at its *)
(* await having passed its check                                           *)
ResumeWritesWitness ==
    /\ pending # Nil /\ pending[1].op = "resetPassword"
    /\ resp.op = "resetPassword" /\ resp.status = 200
    /\ resp.email = pending[1].email
    /\ findByEmail(users, resp.email) # Nil
    /\ UserOf(resp.email).otp = Nil
    /\ UserOf(resp.email).password # pending[1].password

(* C23: a verifyOTP with purpose "verify", the stored code and a clock     *)
(* before otpExpiry, for an account not yet verified, answers 200 and sets *)
(* isVerified.                                                             *)
VerifyPurposeAccepted ==
    \A email \in Emails, otp \in Codes :
        LET found == findByEmail(users, email)
            c == verifyOTPCheck(users, now,
                     Req("verifyOTP", email, Some(otp), "verify", "", "", Nil))
        IN  (/\ Quiet
             /\ found # Nil
             /\ ~found[1].isVerified
             /\ found[1].otp = Some(otp)
             /\ found[1].otpExpiry # Nil
             /\ now < found[1].otpExpiry[1]) =>
                /\ ~c.done
                /\ Write(users, c.k, TRUE).res.status = 200
                /\ findByEmail(Write(users, c.k, TRUE).users, email)[1].isVerified

(* C24: no response carries the code an account has stored: the account in *)
(* a response either has no otp field or its otp is not the pending code   *)
(* of any account.                                                         *)
ResponsesOmitStoredOtp ==
    \A i \in DOMAIN users :
        users[i].otp # Nil =>
            ~(/\ resp.user # Nil
              /\ "otp" \in DOMAIN resp.user[1]
              /\ resp.user[1].otp = users[i].otp)

(* C25: a resendOTP or forgotPassword that answers with an error leaves    *)
(* every account's otp and otpExpiry as they were before the call.         *)
ReissueErrorLeavesOtp ==
    [][(/\ Quiet
        /\ resp'.op \in {"resendOTP", "forgotPassword"}
        /\ resp'.status >= 400) =>
           \A i \in DOMAIN users :
               /\ users'[i].otp = users[i].otp
               /\ users'[i].otpExpiry = users[i].otpExpiry]_vars

(* C26: a verified account holds an email that a verifyOTP with purpose    *)
(* "register" confirmed on it: an account becomes verified only by a       *)
(* verifyOTP that answered 200 for its email, and the email of a verified  *)
(* account does not change afterwards.                                     *)
VerifiedEmailConfirmed ==
    [][\A i \in DOMAIN users :
        /\ (users[i].isVerified /\ users'[i].isVerified) =>
              users'[i].email = users[i].email
        /\ (~users[i].isVerified /\ users'[i].isVerified) =>
              /\ resp'.op = "verifyOTP" /\ resp'.status = 200
              /\ resp'.email = users'[i].email]_vars

(* C27: an account's password changes only in a resetPassword that         *)
(* answered 200 for its email while its stored code was unexpired (the     *)
(* clock before otpExpiry), or in a changePassword that answered 200 for   *)
(* a token of the account; no other request changes it.                    *)
PasswordChangesOnlyByResetOrChange ==
    [][\A i \in DOMAIN users :
        users'[i].password # users[i].password =>
            \/ /\ resp'.op = "resetPassword" /\ resp'.status = 200
               /\ resp'.email = users[i].email
               /\ users[i].otp # Nil /\ users[i].otpExpiry # Nil
               /\ now < users[i].otpExpiry[1]
            \/ /\ resp'.op = "changePassword" /\ resp'.status = 200
               /\ resp'.bearer # Nil /\ resp'.bearer[1].id = i]_vars

(* C28: in every step, under every interleaving of the requests, no row    *)
(* leaves the user table, every row keeps its id, and an account that is   *)
(* verified stays verified.                                                *)
VerifiedMonotonic ==
    [][/\ Len(users') >= Len(users)
       /\ \A i \in DOMAIN users :
            /\ users'[i].id = users[i].id
            /\ users[i].isVerified => users'[i].isVerified]_vars

(* a verified account has just had its password reset while a resendOTP    *)
(* for it waits at its await                                               *)
VerifiedMonotonicWitness ==
    /\ resp.op = "resetPassword" /\ resp.status = 200
    /\ findByEmail(users, resp.email) # Nil
    /\ UserOf(resp.email).isVerified
    /\ pending # Nil /\ pending[1].op = "resendOTP"
    /\ pending[1].email = resp.email

(* C29: every account the middleware attaches to a request is verified:    *)
(* for each bearer token a caller can present, a middleware that lets the  *)
(* request through attaches an account with isVerified = true, and the     *)
(* account a protected handler answers with is verified.                   *)
AttachedUserVerified ==
    /\ \A token \in Bearers :
        LET auth == authMiddleware(users, now, token) IN
        auth.ok => auth.user.isVerified
    /\ (resp.op \in {"getMyProfile", "updateMyProfile"} /\ resp.status = 200) =>
        resp.user[1].isVerified

(* a protected handler served the holder of a token while the table also   *)
(* holds an account that is not verified                                   *)
AttachedUserWitness ==
    /\ resp.op = "changePassword" /\ resp.status = 200
    /\ resp.bearer = held
    /\ authMiddleware(users, now, held).ok
    /\ \E i \in DOMAIN users : ~users[i].isVerified

(* the live rows of the wishlist name each (user, product) at most once *)
WishlistNoDuplicate(wl) ==
    \A i, j \in DOMAIN wl :
        (/\ wl[i].live /\ wl[j].live
         /\ wl[i].userId = wl[j].userId
         /\ wl[i].productId = wl[j].productId) => i = j

(* C30: under every interleaving of addToWishlist and removeFromWishlist   *)
(* the wishlist holds at most one row per (user, product), and an add for  *)
(* a product that is in the caller's wishlist answers 400, also when the   *)
(* add had passed its findFirst before the product was put there.          *)
WishlistHoldsProductOnce ==
    [][/\ WishlistNoDuplicate(wishlist')
       /\ (/\ pending # Nil /\ pending' = Nil
           /\ pending[1].op = "addToWishlist"
           /\ findFirstWishlist(wishlist, pending[1].uid,
                                pending[1].productId) # Nil) =>
              resp'.status = 400
       /\ \A token \in WishlistTokens, productId \in Products :
            (/\ Quiet
             /\ authMiddleware(users, now, token).ok
             /\ findFirstWishlist(wishlist, token[1].id, productId) # Nil) =>
                addToWishlistCheck(users, wishlist, now, token, productId)
                    = Done(Res(400, "Product already in wishlist.",
                               Nil, Nil, Nil), Nil)]_vars

====
